---- MODULE Spec2Model ----
(***************************************************************************)
(* Model of the interview scheduler's calendar core:                       *)
(*   ics_utils.py    stable_uid, _fmt_dt, ICSInvite.validate / to_ics,     *)
(*                   create_ics_from_interview                             *)
(*   graph_client.py GraphClient.send_mail                                 *)
(*                                                                         *)
(* A Python str is a sequence of tokens.  Free text from a caller is        *)
(* spelled one character per token; a literal of the source, and a keyword *)
(* of the format such as a role name, is one token (so "UID:" is the token *)
(* "UID:").  The only whitespace character of the alphabet is " ".         *)
(*                                                                         *)
(* A datetime is a record [isdt, wall, aware, off]: wall is the wall-clock *)
(* reading in seconds counted from 2024-03-01T00:00:00, aware tells        *)
(* whether tzinfo is set and off is its UTC offset in seconds.  isdt is    *)
(* FALSE for a value that is not a datetime at all.                        *)
(***************************************************************************)
EXTENDS Integers, Sequences, FiniteSets, TLC

VARIABLES pc, args, result, prev, now, http

vars == <<pc, args, result, prev, now, http>>

\* ------------------------------------------------------------------ bounds

\* Longest attendee list given to the builder.
MaxAttendees == 2

\* Latest reading of the wall clock, in seconds after ClockStart.
MaxNow == 1

\* Largest number of parts in a first call of stable_uid.
MaxParts == 3

\* ------------------------------------------------------------ str helpers

EmptyStr == <<>>

SP == " "

RECURSIVE LStrip(_)
LStrip(s) ==
    IF s # <<>> /\ Head(s) = SP THEN LStrip(Tail(s)) ELSE s

RECURSIVE RStrip(_)
RStrip(s) ==
    IF s # <<>> /\ s[Len(s)] = SP THEN RStrip(SubSeq(s, 1, Len(s) - 1)) ELSE s

\* str.strip()
Strip(s) == RStrip(LStrip(s))

\* sep.join(items), items a sequence of str
RECURSIVE Join(_, _)
Join(sep, items) ==
    IF items = <<>> THEN <<>>
    ELSE IF Len(items) = 1 THEN items[1]
    ELSE items[1] \o sep \o Join(sep, Tail(items))

\* All sequences over S of length lo..hi.
SeqsOf(S, lo, hi) == UNION {[1..n -> S] : n \in lo..hi}

\* ------------------------------------------------------- call outcomes

NoResult == [kind |-> "none", exc |-> "", msg |-> "", value |-> <<>>]

Return(v) == [kind |-> "return", exc |-> "", msg |-> "", value |-> v]

Raise(e, m) == [kind |-> "raise", exc |-> e, msg |-> m, value |-> <<>>]

NoCall == [args |-> <<>>, result |-> NoResult]

\* No HTTP request sent yet.
NoExchange == [request |-> <<>>, response |-> <<>>]

\* ------------------------------------------------------------ stable_uid

\* hashlib.sha256(base.encode("utf-8")).hexdigest()[:32], with SHA-256 taken
\* as collision-free: the digest is a token that names its preimage.
Sha256Hex32(base) == "sha256[:32]" \o ToString(base)

\* [p.strip() for p in parts if p]
RECURSIVE StrippedTruthy(_)
StrippedTruthy(parts) ==
    IF parts = <<>> THEN <<>>
    ELSE (IF Head(parts) # EmptyStr THEN <<Strip(Head(parts))>> ELSE <<>>)
         \o StrippedTruthy(Tail(parts))

\* stable_uid with the last part left out of the hash input.
StableUidIgnoresLast(parts) ==
    LET base == Join(<<"|">>, StrippedTruthy(SubSeq(parts, 1, Len(parts) - 1)))
    IN  <<Sha256Hex32(base), "@powerdashhr.com">>

stable_uid(parts) ==
    LET base == Join(<<"|">>, StrippedTruthy(parts))
    IN  <<Sha256Hex32(base), "@powerdashhr.com">>

\* ------------------------------------------------- stable_uid: the calls

\* Parts given to stable_uid: empty, blank, padded, and with the delimiter.
PartStrings ==
    { <<>>, <<" ">>, <<"a">>, <<"b">>, <<"a", " ">>, <<"|">>, <<"a", "|", "b">> }

BlankStrings == { <<>>, <<" ">>, <<" ", " ">> }

UidArgs == {[op |-> "stable_uid", parts |-> ps] : ps \in SeqsOf(PartStrings, 1, MaxParts)}

InsertAt(s, i, x) == SubSeq(s, 1, i - 1) \o <<x>> \o SubSeq(s, i, Len(s))

InitUid ==
    /\ pc = "ready"
    /\ args \in UidArgs
    /\ result = NoResult
    /\ prev = NoCall
    /\ now = 0
    /\ http = NoExchange

\* stable_uid(*parts)
StableUidCall ==
    /\ pc = "ready"
    /\ args.op = "stable_uid"
    /\ result' = Return(stable_uid(args.parts))
    /\ pc' = "done"
    /\ UNCHANGED http
    /\ UNCHANGED <<args, prev, now>>

\* A second call whose parts are the first call's with one more part, empty
\* or blank, at some position.
StableUidInsertBlank ==
    /\ pc = "done"
    /\ args.op = "stable_uid"
    /\ \E i \in 1..(Len(args.parts) + 1), b \in BlankStrings :
          /\ args' = [op |-> "stable_uid_blank", parts |-> InsertAt(args.parts, i, b)]
          /\ result' = Return(stable_uid(InsertAt(args.parts, i, b)))
    /\ prev' = [args |-> args, result |-> result]
    /\ pc' = "done2"
    /\ UNCHANGED http
    /\ UNCHANGED now

\* A second call whose parts are the first call's with whitespace put around
\* one part that the first call kept after trimming.
StableUidPad ==
    /\ pc = "done"
    /\ args.op = "stable_uid"
    /\ \E i \in 1..Len(args.parts), l \in {<<>>, <<" ">>}, r \in {<<>>, <<" ">>} :
          /\ Strip(args.parts[i]) # EmptyStr
          /\ l \o r # <<>>
          /\ args' = [op |-> "stable_uid_pad",
                      parts |-> [args.parts EXCEPT ![i] = l \o @ \o r]]
          /\ result' = Return(stable_uid([args.parts EXCEPT ![i] = l \o @ \o r]))
    /\ prev' = [args |-> args, result |-> result]
    /\ pc' = "done2"
    /\ UNCHANGED http
    /\ UNCHANGED now

\* A second call on any (subject, organizer, start) triple, after a first
\* call on a triple.
StableUidOther ==
    /\ pc = "done"
    /\ args.op = "stable_uid"
    /\ Len(args.parts) = 3
    /\ \E ps \in SeqsOf(PartStrings, 3, 3) :
          /\ args' = [op |-> "stable_uid_other", parts |-> ps]
          /\ result' = Return(stable_uid(ps))
    /\ prev' = [args |-> args, result |-> result]
    /\ pc' = "done2"
    /\ UNCHANGED http
    /\ UNCHANGED now

NextUid ==
    \/ StableUidCall
    \/ StableUidInsertBlank
    \/ StableUidPad
    \/ StableUidOther

SpecUid == InitUid /\ [][NextUid]_vars

\* -------------------------------------------------------------- datetime

Minute == 60

Hour == 60 * Minute

Day == 24 * Hour

Digits == <<"0", "1", "2", "3", "4", "5", "6", "7", "8", "9">>

\* A number below 100 as two decimal digits (strftime's and isoformat's %02d).
TwoDigits(n) == <<Digits[(n \div 10) + 1], Digits[(n % 10) + 1]>>

\* Calendar fields of a wall-clock reading; the model's readings stay in
\* March 2024, so the day of the month is all that moves.
DayOfMonth(wall) == 1 + (wall \div Day)

HourOf(wall) == (wall % Day) \div Hour

MinuteOf(wall) == (wall % Hour) \div Minute

SecondOf(wall) == wall % Minute

\* datetime(2024, 3, d, h, m, s, tzinfo=...)
NaiveDt(wall) == [isdt |-> TRUE, wall |-> wall, aware |-> FALSE, off |-> 0]

AwareDt(wall, off) == [isdt |-> TRUE, wall |-> wall, aware |-> TRUE, off |-> off]

\* A value that is not a datetime (a str, None).
NotADatetime == [isdt |-> FALSE, wall |-> 0, aware |-> FALSE, off |-> 0]

\* dt.replace(tzinfo=timezone.utc)
ReplaceTzUtc(dt) == [dt EXCEPT !.aware = TRUE, !.off = 0]

\* dt.astimezone(timezone.utc), dt aware
AsTimezoneUtc(dt) == [dt EXCEPT !.wall = dt.wall - dt.off, !.off = 0]

\* dt + timedelta(minutes=n)
PlusMinutes(dt, n) == [dt EXCEPT !.wall = dt.wall + n * Minute]

\* dt.strftime("%Y%m%dT%H%M%SZ")
Strftime(dt) ==
    <<"2", "0", "2", "4", "0", "3">> \o TwoDigits(DayOfMonth(dt.wall)) \o <<"T">>
        \o TwoDigits(HourOf(dt.wall)) \o TwoDigits(MinuteOf(dt.wall))
        \o TwoDigits(SecondOf(dt.wall)) \o <<"Z">>

\* dt.isoformat(): YYYY-MM-DDTHH:MM:SS, and +HH:MM or -HH:MM when dt is aware.
IsoFormat(dt) ==
    LET a == IF dt.off < 0 THEN -dt.off ELSE dt.off
    IN  <<"2", "0", "2", "4", "-", "0", "3", "-">> \o TwoDigits(DayOfMonth(dt.wall))
            \o <<"T">> \o TwoDigits(HourOf(dt.wall)) \o <<":">>
            \o TwoDigits(MinuteOf(dt.wall)) \o <<":">> \o TwoDigits(SecondOf(dt.wall))
            \o (IF dt.aware
                THEN <<IF dt.off < 0 THEN "-" ELSE "+">> \o TwoDigits(a \div Hour)
                         \o <<":">> \o TwoDigits((a % Hour) \div Minute)
                ELSE <<>>)

\* _fmt_dt(dt)
FmtDt(dt) ==
    Strftime(AsTimezoneUtc(IF dt.aware THEN dt ELSE ReplaceTzUtc(dt)))

\* datetime's a <= b: defined between two naive or two aware values only.
Comparable(a, b) == a.aware = b.aware

DtLe(a, b) == (a.wall - a.off) <= (b.wall - b.off)

\* ------------------------------------------------------------- ICSInvite

CRLF == "\r\n"

ValidationError(m) == Raise("ICSValidationError", m)

\* ICSInvite.validate: the exception it raises, or NoResult when it returns.
validate(inv) ==
    IF inv.uid = EmptyStr THEN ValidationError("Missing UID")
    ELSE IF inv.summary = EmptyStr THEN ValidationError("Missing summary")
    ELSE IF inv.organizer_email = EmptyStr THEN ValidationError("Missing organizer email")
    ELSE IF ~inv.start_utc.isdt \/ ~inv.end_utc.isdt
        THEN ValidationError("start_utc and end_utc must be datetime objects")
    ELSE IF ~Comparable(inv.end_utc, inv.start_utc)
        THEN Raise("TypeError", "can't compare offset-naive and offset-aware datetimes")
    ELSE IF DtLe(inv.end_utc, inv.start_utc)
        THEN ValidationError("end_utc must be after start_utc")
    ELSE NoResult

\* (a.get(k) or d): d when the key is missing or its value is empty.
GetOr(a, k, d) == IF k \in DOMAIN a /\ a[k] # EmptyStr THEN a[k] ELSE d

AttendeeEmail(a) == Strip(GetOr(a, "email", EmptyStr))

AttendeeName(a) ==
    LET name == Strip(GetOr(a, "name", EmptyStr))
    IN  IF name # EmptyStr THEN name ELSE AttendeeEmail(a)

AttendeeRole(a) == Strip(GetOr(a, "role", <<"REQ-PARTICIPANT">>))

AttendeeText(a) ==
    <<"ATTENDEE;CN=">> \o AttendeeName(a) \o <<";ROLE=">> \o AttendeeRole(a)
        \o <<";PARTSTAT=NEEDS-ACTION;RSVP=TRUE:MAILTO:">> \o AttendeeEmail(a)

\* The loop body without its 'if email:' guard.
AttendeeLineAlways(a) == <<AttendeeText(a)>>

\* One pass of the loop over self.attendees: the lines it appends.
AttendeeLine(a) ==
    IF AttendeeEmail(a) # EmptyStr THEN <<AttendeeText(a)>> ELSE <<>>

RECURSIVE AttendeeLines(_)
AttendeeLines(attendees) ==
    IF attendees = <<>> THEN <<>>
    ELSE AttendeeLine(Head(attendees)) \o AttendeeLines(Tail(attendees))

\* ICSInvite.to_ics, with datetime.now(timezone.utc) read as nowdt.
to_ics(inv, nowdt) ==
    LET v == validate(inv)
        dtstamp == FmtDt(nowdt)
        dtstart == FmtDt(inv.start_utc)
        dtend == FmtDt(inv.end_utc)
        lines ==
            << <<"BEGIN:VCALENDAR">>,
               <<"PRODID:-//PowerDash HR//Interview Scheduler//EN">>,
               <<"VERSION:2.0">>,
               <<"METHOD:">> \o inv.method,
               <<"CALSCALE:GREGORIAN">>,
               <<"BEGIN:VEVENT">>,
               <<"UID:">> \o inv.uid,
               <<"DTSTAMP:">> \o dtstamp,
               <<"DTSTART:">> \o dtstart,
               <<"DTEND:">> \o dtend,
               <<"SUMMARY:">> \o inv.summary,
               <<"DESCRIPTION:">> \o inv.description,
               <<"LOCATION:">> \o inv.location,
               <<"ORGANIZER;CN=">> \o inv.organizer_name \o <<":MAILTO:">>
                   \o inv.organizer_email,
               <<"SEQUENCE:0">>,
               <<"STATUS:CONFIRMED">>,
               <<"TRANSP:OPAQUE">> >>
            \o AttendeeLines(inv.attendees)
            \o << <<"END:VEVENT">>, <<"END:VCALENDAR">> >>
    IN  IF v.kind = "raise" THEN v
        ELSE Return(Join(<<CRLF>>, lines) \o <<CRLF>>)

\* x or d, for a str x
StrOr(x, d) == IF x # EmptyStr THEN x ELSE d

\* The ICSInvite that create_ics_from_interview builds.
InterviewInvite(a, uid) ==
    LET start == IF ~a.start_utc.aware THEN ReplaceTzUtc(a.start_utc) ELSE a.start_utc
    IN  [ uid |-> uid,
          summary |-> a.subject,
          description |-> StrOr(a.agenda, EmptyStr),
          location |-> StrOr(a.location, EmptyStr),
          organizer_email |-> a.organizer_email,
          organizer_name |-> StrOr(a.organizer_name, a.organizer_email),
          attendees |-> a.attendees,
          start_utc |-> start,
          end_utc |-> PlusMinutes(start, a.duration_minutes),
          method |-> <<"REQUEST">> ]

\* create_ics_from_interview with a uid made from the render time when none
\* is given.
CreateIcsTimeUid(a, nowdt) ==
    to_ics(InterviewInvite(a, IF a.uid = EmptyStr
                              THEN stable_uid(<<a.subject, a.organizer_email, IsoFormat(nowdt)>>)
                              ELSE a.uid), nowdt)

\* create_ics_from_interview(subject, ..., uid), an absent uid being empty.
create_ics_from_interview(a, nowdt) ==
    LET start == IF ~a.start_utc.aware THEN ReplaceTzUtc(a.start_utc) ELSE a.start_utc
        uid == IF a.uid = EmptyStr
               THEN stable_uid(<<a.subject, a.organizer_email, IsoFormat(start)>>)
               ELSE a.uid
    IN  to_ics(InterviewInvite(a, uid), nowdt)

\* ----------------------------------------------------- the ICS calls

\* 2024-03-05 09:30:00, one second later, and 11:30:00.
Wall0930 == 4 * Day + 9 * Hour + 30 * Minute

WallClocks == {Wall0930, Wall0930 + 1, Wall0930 + 2 * Hour}

\* tzinfo: UTC and +02:00.
Offsets == {0, 2 * Hour}

DateTimes ==
    {NaiveDt(w) : w \in WallClocks} \cup {AwareDt(w, o) : w \in WallClocks, o \in Offsets}

\* 2024-03-05 08:00:00, the first reading of the clock.
ClockStart == 4 * Day + 8 * Hour

\* datetime.now(timezone.utc) when the clock stands at t.
NowUtc(t) == AwareDt(ClockStart + t, 0)

ReqRole == <<"REQ-PARTICIPANT">>

OptRole == <<"OPT-PARTICIPANT">>

\* Entries of an attendee list: required, optional, with defaults and a
\* padded email, and with the email missing, empty or blank.
AttendeeDicts ==
    { [email |-> <<"r">>, name |-> <<"R">>, role |-> ReqRole],
      [email |-> <<"o">>, name |-> <<" ">>, role |-> OptRole],
      [email |-> <<" ", "d", " ">>],
      [name |-> <<"N">>, role |-> ReqRole],
      [email |-> <<>>, name |-> <<"E">>],
      [email |-> <<" ">>, role |-> OptRole] }

AttendeeLists == SeqsOf(AttendeeDicts, 0, MaxAttendees)

Texts(S) == {EmptyStr} \cup S

\* ICSInvite(...) values handed to to_ics directly.
ToIcsArgs ==
    { [ op |-> "to_ics",
        invite |-> [ uid |-> u, summary |-> sm, description |-> <<"A">>,
                     location |-> EmptyStr, organizer_email |-> oe,
                     organizer_name |-> <<"O">>, attendees |-> at,
                     start_utc |-> st, end_utc |-> en, method |-> <<"REQUEST">> ] ] :
        u \in Texts({<<"u">>}), sm \in Texts({<<"S">>}), oe \in Texts({<<"e">>}),
        at \in AttendeeLists,
        st \in DateTimes \cup {NotADatetime}, en \in DateTimes \cup {NotADatetime} }

\* Arguments of create_ics_from_interview.
CreateArgs ==
    { [ op |-> "create", subject |-> sj, agenda |-> <<"A">>, location |-> EmptyStr,
        organizer_email |-> oe, organizer_name |-> EmptyStr, attendees |-> at,
        start_utc |-> st, duration_minutes |-> d, uid |-> u ] :
        sj \in Texts({<<"S">>}), oe \in Texts({<<"e">>}), at \in AttendeeLists,
        st \in DateTimes, d \in {-30, 0, 30}, u \in Texts({<<"u">>}) }

InitIcs ==
    /\ pc = "ready"
    /\ args \in ToIcsArgs
    /\ result = NoResult
    /\ prev = NoCall
    /\ now = 0
    /\ http = NoExchange

InitCreate ==
    /\ pc = "ready"
    /\ args \in CreateArgs
    /\ result = NoResult
    /\ prev = NoCall
    /\ now = 0
    /\ http = NoExchange

\* The instant a datetime denotes, a naive one read as UTC.
Instant(dt) == dt.wall - (IF dt.aware THEN dt.off ELSE 0)

\* invite.to_ics()
ToIcsCall ==
    /\ pc = "ready"
    /\ args.op = "to_ics"
    /\ \E t \in now..MaxNow :
          /\ now' = t
          /\ result' = to_ics(args.invite, NowUtc(t))
    /\ pc' = "done"
    /\ UNCHANGED http
    /\ UNCHANGED <<args, prev>>

\* to_ics() again on the same invite with each naive start_utc / end_utc
\* given as the same wall-clock reading with tzinfo=timezone.utc.
ToIcsExplicitUtc ==
    /\ pc = "done"
    /\ args.op = "to_ics"
    /\ args.invite.start_utc.isdt /\ args.invite.end_utc.isdt
    /\ ~args.invite.start_utc.aware \/ ~args.invite.end_utc.aware
    /\ LET inv == [args.invite EXCEPT !.start_utc = ReplaceTzUtc(@),
                                      !.end_utc = ReplaceTzUtc(@)]
       IN  /\ args' = [op |-> "to_ics_explicit_utc", invite |-> inv]
           /\ \E t \in now..MaxNow :
                 /\ now' = t
                 /\ result' = to_ics(inv, NowUtc(t))
    /\ prev' = [args |-> args, result |-> result]
    /\ pc' = "done2"
    /\ UNCHANGED http

\* create_ics_from_interview(...)
CreateIcsCall ==
    /\ pc = "ready"
    /\ args.op = "create"
    /\ \E t \in now..MaxNow :
          /\ now' = t
          /\ result' = create_ics_from_interview(args, NowUtc(t))
    /\ pc' = "done"
    /\ UNCHANGED http
    /\ UNCHANGED <<args, prev>>

\* create_ics_from_interview(...) once more with identical arguments.
CreateIcsAgain ==
    /\ pc = "done"
    /\ args.op = "create"
    /\ \E t \in now..MaxNow :
          /\ now' = t
          /\ result' = create_ics_from_interview(args, NowUtc(t))
    /\ args' = [args EXCEPT !.op = "create_again"]
    /\ prev' = [args |-> args, result |-> result]
    /\ pc' = "done2"
    /\ UNCHANGED http

\* create_ics_from_interview(...) once more for the same slot: the same
\* arguments but for start_utc, which denotes the same instant another way.
CreateIcsSameSlot ==
    /\ pc = "done"
    /\ args.op = "create"
    /\ \E st \in DateTimes :
          /\ st # args.start_utc
          /\ Instant(st) = Instant(args.start_utc)
          /\ args' = [args EXCEPT !.op = "create_same_slot", !.start_utc = st]
          /\ \E t \in now..MaxNow :
                /\ now' = t
                /\ result' = create_ics_from_interview(
                                 [args EXCEPT !.start_utc = st], NowUtc(t))
    /\ prev' = [args |-> args, result |-> result]
    /\ pc' = "done2"
    /\ UNCHANGED http

NextIcs ==
    \/ ToIcsCall
    \/ ToIcsExplicitUtc

NextCreate ==
    \/ CreateIcsCall
    \/ CreateIcsAgain
    \/ CreateIcsSameSlot

\* ICSInvite.to_ics called directly.
SpecIcs == InitIcs /\ [][NextIcs]_vars

\* create_ics_from_interview.
SpecCreate == InitCreate /\ [][NextCreate]_vars

\* ------------------------------------------------- reading a document

\* The lines of a text, each ended by CRLF (a last piece without one counts
\* as a line too).
RECURSIVE TextLines(_)
TextLines(doc) ==
    IF doc = <<>> THEN <<>>
    ELSE LET ends == {i \in 1..Len(doc) : doc[i] = CRLF}
             k == IF ends = {} THEN Len(doc) + 1
                  ELSE CHOOSE i \in ends : \A j \in ends : i <= j
         IN  <<SubSeq(doc, 1, k - 1)>> \o TextLines(SubSeq(doc, k + 1, Len(doc)))

IsDoc(r) == r.kind = "return"

StartsWith(line, token) == line # <<>> /\ line[1] = token

EndsWith(line, tail) ==
    Len(tail) <= Len(line) /\ SubSeq(line, Len(line) - Len(tail) + 1, Len(line)) = tail

\* The lines of a returned document that open with the given token.
LinesNamed(r, token) ==
    LET Named(l) == StartsWith(l, token) IN SelectSeq(TextLines(r.value), Named)

\* The value of the ROLE parameter of an ATTENDEE line.
RoleOf(line) == line[1 + CHOOSE i \in 1..Len(line) : line[i] = ";ROLE="]

\* What follows MAILTO: on an ATTENDEE line.
MailtoOf(line) ==
    LET k == CHOOSE i \in 1..Len(line) :
                 line[i] = ";PARTSTAT=NEEDS-ACTION;RSVP=TRUE:MAILTO:"
    IN  SubSeq(line, k + 1, Len(line))

RECURSIVE MapMailto(_)
MapMailto(lines) ==
    IF lines = <<>> THEN <<>> ELSE <<MailtoOf(Head(lines))>> \o MapMailto(Tail(lines))

\* The first token of every line.
RECURSIVE LineHeads(_)
LineHeads(lines) ==
    IF lines = <<>> THEN <<>> ELSE <<Head(Head(lines))>> \o LineHeads(Tail(lines))

\* The attendee list behind the last call.
DirectCall == args.op \in {"to_ics", "to_ics_explicit_utc"}

GivenAttendees == IF DirectCall THEN args.invite.attendees ELSE args.attendees

\* An entry's email as given, trimmed; empty when the key is missing.
GivenEmail(a) == IF "email" \in DOMAIN a THEN Strip(a.email) ELSE EmptyStr

GivenRole(a) == IF "role" \in DOMAIN a /\ a.role # EmptyStr THEN Strip(a.role) ELSE ReqRole

\* The trimmed emails of the entries of a list that have one and have the role.
RECURSIVE EmailsWithRole(_, _)
EmailsWithRole(attendees, role) ==
    IF attendees = <<>> THEN <<>>
    ELSE (IF GivenEmail(Head(attendees)) # EmptyStr /\ GivenRole(Head(attendees)) = role
          THEN <<GivenEmail(Head(attendees))>> ELSE <<>>)
         \o EmailsWithRole(Tail(attendees), role)

RECURSIVE NonEmptyEmails(_)
NonEmptyEmails(attendees) ==
    IF attendees = <<>> THEN <<>>
    ELSE (IF GivenEmail(Head(attendees)) # EmptyStr
          THEN <<GivenEmail(Head(attendees))>> ELSE <<>>)
         \o NonEmptyEmails(Tail(attendees))

\* uid, summary and organizer_email non-empty, both ends datetimes, and the
\* end strictly after the start as instants.
WellFormed(inv) ==
    /\ inv.uid # EmptyStr
    /\ inv.summary # EmptyStr
    /\ inv.organizer_email # EmptyStr
    /\ inv.start_utc.isdt /\ inv.end_utc.isdt
    /\ Instant(inv.end_utc) > Instant(inv.start_utc)

IsValidationError(r) ==
    r.kind = "raise" /\ r.exc = "ICSValidationError" /\ r.value = <<>>

\* --------------------------------------------------------- the ICS claims

\* C1: without a uid, two create_ics_from_interview calls with the same
\* subject and organizer email whose start_utc denote the same instant
\* (other offset, or naive against explicit UTC) produce the same UID line.
C1_SameSlotSameUid ==
    ( /\ pc = "done2" /\ args.op = "create_same_slot"
      /\ args.uid = EmptyStr
      /\ IsDoc(result) /\ IsDoc(prev.result) )
        => LinesNamed(result, "UID:") = LinesNamed(prev.result, "UID:")

\* C2: to_ics returns a document exactly when uid, summary and
\* organizer_email are non-empty and end_utc is strictly after start_utc;
\* otherwise it raises ICSValidationError and returns no text, as does
\* create_ics_from_interview with duration_minutes <= 0; an end one second
\* after the start succeeds.
C2_DocumentIffWellFormed ==
    /\ (pc = "done" /\ args.op = "to_ics")
          => /\ IsDoc(result) <=> WellFormed(args.invite)
             /\ ~WellFormed(args.invite) => IsValidationError(result)
             /\ ( /\ WellFormed(args.invite)
                  /\ Instant(args.invite.end_utc) = Instant(args.invite.start_utc) + 1 )
                   => IsDoc(result)
    /\ (pc = "done" /\ args.op = "create" /\ args.duration_minutes <= 0)
          => IsValidationError(result)

\* C3: in a returned document every ATTENDEE line with ROLE=REQ-PARTICIPANT
\* precedes every one with ROLE=OPT-PARTICIPANT, and each of the two groups
\* keeps the order of the input list.
C3_RequiredBeforeOptional ==
    (pc # "ready" /\ IsDoc(result))
        => LET al == LinesNamed(result, "ATTENDEE;CN=")
               OfRole(r) == LET Has(l) == <<RoleOf(l)>> = r IN SelectSeq(al, Has)
           IN  /\ \A i, j \in 1..Len(al) :
                      (<<RoleOf(al[i])>> = OptRole /\ <<RoleOf(al[j])>> = ReqRole) => j < i
               /\ MapMailto(OfRole(ReqRole)) = EmailsWithRole(GivenAttendees, ReqRole)
               /\ MapMailto(OfRole(OptRole)) = EmailsWithRole(GivenAttendees, OptRole)

DocumentHead ==
    << "BEGIN:VCALENDAR", "PRODID:-//PowerDash HR//Interview Scheduler//EN",
       "VERSION:2.0", "METHOD:", "CALSCALE:GREGORIAN", "BEGIN:VEVENT", "UID:",
       "DTSTAMP:", "DTSTART:", "DTEND:", "SUMMARY:", "DESCRIPTION:", "LOCATION:",
       "ORGANIZER;CN=" >>

DocumentTail ==
    << "SEQUENCE:0", "STATUS:CONFIRMED", "TRANSP:OPAQUE", "END:VEVENT", "END:VCALENDAR" >>

\* C4: the lines of a returned document come in the order BEGIN:VCALENDAR
\* ... ORGANIZER, then all ATTENDEE lines, then SEQUENCE:0, STATUS:CONFIRMED,
\* TRANSP:OPAQUE, END:VEVENT, END:VCALENDAR.
C4_LineOrder ==
    (pc # "ready" /\ IsDoc(result))
        => LET n == Len(LinesNamed(result, "ATTENDEE;CN="))
           IN  LineHeads(TextLines(result.value))
                   = DocumentHead \o [i \in 1..n |-> "ATTENDEE;CN="] \o DocumentTail

\* C7: a naive start_utc or end_utc is read as UTC and never rejected: with
\* the end after the start, to_ics returns a document for every mix of naive
\* and aware ends, and its DTSTART and DTEND lines are those of the same
\* wall-clock readings given with explicit UTC.
C7_NaiveReadAsUtc ==
    /\ (pc = "done" /\ args.op = "to_ics" /\ WellFormed(args.invite)) => IsDoc(result)
    /\ ( /\ pc = "done2" /\ args.op = "to_ics_explicit_utc"
         /\ WellFormed(prev.args.invite) )
          => /\ IsDoc(result) /\ IsDoc(prev.result)
             /\ LinesNamed(result, "DTSTART:") = LinesNamed(prev.result, "DTSTART:")
             /\ LinesNamed(result, "DTEND:") = LinesNamed(prev.result, "DTEND:")

\* C8: a returned document has as many ATTENDEE lines as the list has
\* entries whose trimmed email is non-empty; an entry with a missing, empty
\* or blank email gives no line, and the others give one line each, in
\* order, ending in MAILTO: and the entry's trimmed email; and no entry is
\* an error: whatever the list, an invite with well-formed fields and both
\* ends naive or both aware is rendered.
C8_AttendeeLines ==
    /\ (pc # "ready" /\ IsDoc(result))
          => LET al == LinesNamed(result, "ATTENDEE;CN=")
                 emails == NonEmptyEmails(GivenAttendees)
             IN  /\ Len(al) = Len(emails)
                 /\ \A k \in 1..Len(emails) :
                        EndsWith(al[k], <<";PARTSTAT=NEEDS-ACTION;RSVP=TRUE:MAILTO:">>
                                            \o emails[k])
    /\ ( /\ pc # "ready" /\ DirectCall /\ WellFormed(args.invite)
         /\ args.invite.start_utc.aware = args.invite.end_utc.aware )
          => IsDoc(result)

\* A document from a list with an entry that has an email and one that has
\* none: one ATTENDEE line fewer than entries.
C8_Witness ==
    /\ pc = "done" /\ DirectCall /\ IsDoc(result)
    /\ Len(GivenAttendees) = 2
    /\ GivenEmail(GivenAttendees[1]) = EmptyStr
    /\ GivenEmail(GivenAttendees[2]) # EmptyStr
    /\ Len(LinesNamed(result, "ATTENDEE;CN=")) = 1

\* C10: two create_ics_from_interview calls with identical arguments return
\* documents that are the same line for line, but possibly for DTSTAMP.
C10_OnlyDtstampDiffers ==
    ( /\ pc = "done2" /\ args.op = "create_again"
      /\ IsDoc(result) /\ IsDoc(prev.result) )
        => LET a == TextLines(result.value)
               b == TextLines(prev.result.value)
           IN  /\ Len(a) = Len(b)
               /\ \A i \in 1..Len(a) :
                      a[i] # b[i] => (StartsWith(a[i], "DTSTAMP:") /\ StartsWith(b[i], "DTSTAMP:"))

\* Two renderings of the same arguments, the uid derived, at different
\* clock readings: the documents differ.
C10_Witness ==
    /\ pc = "done2" /\ args.op = "create_again"
    /\ args.uid = EmptyStr
    /\ IsDoc(result) /\ IsDoc(prev.result)
    /\ Len(LinesNamed(result, "ATTENDEE;CN=")) > 0
    /\ result.value # prev.result.value

\* ----------------------------------------------------------- send_mail

GRAPH_BASE == "https://graph.microsoft.com/v1.0"

\* A list argument that defaults to None.
NoneList == [none |-> TRUE, items |-> <<>>]

ListOf(items) == [none |-> FALSE, items |-> items]

\* GraphClient._headers
Headers(access_token) ==
    [Authorization |-> <<"Bearer ", access_token>>, ContentType |-> "application/json"]

\* The request send_mail posts: url, headers and the JSON payload.
SendMailRequest(a) ==
    LET attachments == IF a.attachments.none THEN <<>> ELSE a.attachments.items
        cc_emails == IF a.cc_emails.none THEN <<>> ELSE a.cc_emails.items
    IN  [ url |-> <<GRAPH_BASE, "/users/", a.sender_email, "/sendMail">>,
          headers |-> Headers(a.access_token),
          json |->
              [ message |->
                    [ subject |-> a.subject,
                      body |-> [contentType |-> "HTML", content |-> a.html_body],
                      toRecipients |->
                          [i \in DOMAIN a.to_emails |->
                               [emailAddress |-> [address |-> a.to_emails[i]]]],
                      ccRecipients |->
                          [i \in DOMAIN cc_emails |->
                               [emailAddress |-> [address |-> cc_emails[i]]]],
                      attachments |->
                          [i \in DOMAIN attachments |->
                               [ odata_type |-> "#microsoft.graph.fileAttachment",
                                 name |-> attachments[i].name,
                                 contentType |-> attachments[i].contentType,
                                 contentBytes |-> attachments[i].contentBytes ]] ],
                saveToSentItems |-> TRUE ] ]

\* send_mail with the success test made first: every status outside
\* 200, 201, 202 is a GraphAPIError.
SendMailOutcomeApiFirst(r) ==
    IF r.status_code \notin {200, 201, 202}
    THEN Raise("GraphAPIError",
               "Graph sendMail failed: " \o ToString(r.status_code) \o " " \o r.text)
    ELSE IF r.status_code \in {401, 403}
    THEN Raise("GraphAuthError",
               "Graph auth error: " \o ToString(r.status_code) \o " " \o r.text)
    ELSE Return([success |-> TRUE, status_code |-> r.status_code])

\* What send_mail does with the response r of the post.
SendMailOutcome(r) ==
    IF r.status_code \in {401, 403}
    THEN Raise("GraphAuthError",
               "Graph auth error: " \o ToString(r.status_code) \o " " \o r.text)
    ELSE IF r.status_code \notin {200, 201, 202}
    THEN Raise("GraphAPIError",
               "Graph sendMail failed: " \o ToString(r.status_code) \o " " \o r.text)
    ELSE Return([success |-> TRUE, status_code |-> r.status_code])

\* HTTP status codes and bodies a response may carry.
StatusCodes == 100..599

ResponseTexts == {"", "denied"}

IcsAttachment ==
    [name |-> "invite.ics", contentType |-> "text/calendar", contentBytes |-> "QkVHSU4="]

SendMailArgs ==
    { [ op |-> "send_mail", access_token |-> "token", sender_email |-> "hr@powerdashhr.com",
        to_emails |-> to, subject |-> "Phone Screen", html_body |-> "<p>Hello</p>",
        attachments |-> at, cc_emails |-> cc ] :
        to \in {<<"cand@example.com">>, <<"cand@example.com", "mgr@example.com">>},
        at \in {NoneList, ListOf(<<>>), ListOf(<<IcsAttachment>>)},
        cc \in {NoneList, ListOf(<<"cc@example.com">>)} }

InitMail ==
    /\ pc = "ready"
    /\ args \in SendMailArgs
    /\ result = NoResult
    /\ prev = NoCall
    /\ now = 0
    /\ http = NoExchange

\* client.send_mail(...): the post, whatever response comes back, and the
\* outcome.
SendMail ==
    /\ pc = "ready"
    /\ args.op = "send_mail"
    /\ \E sc \in StatusCodes, tx \in ResponseTexts :
          LET r == [status_code |-> sc, text |-> tx]
          IN  /\ http' = [request |-> SendMailRequest(args), response |-> r]
              /\ result' = SendMailOutcome(r)
    /\ pc' = "sent"
    /\ UNCHANGED <<args, prev, now>>

NextMail == SendMail

SpecMail == InitMail /\ [][NextMail]_vars

\* ------------------------------------------------------ the whole program

Init == InitUid \/ InitIcs \/ InitCreate \/ InitMail

Next == NextUid \/ NextIcs \/ NextCreate \/ NextMail

Spec == Init /\ [][Next]_vars

\* --------------------------------------------------- the send_mail claim

\* C9: send_mail sorts every transport status into exactly one outcome: 401
\* or 403 raises GraphAuthError, 200, 201 or 202 returns success with that
\* status code, anything else raises GraphAPIError.
C9_StatusClassification ==
    (pc = "sent")
        => LET sc == http.response.status_code
           IN  /\ sc \in {401, 403}
                     => (result.kind = "raise" /\ result.exc = "GraphAuthError")
               /\ sc \in {200, 201, 202}
                     => result = Return([success |-> TRUE, status_code |-> sc])
               /\ sc \notin {401, 403, 200, 201, 202}
                     => (result.kind = "raise" /\ result.exc = "GraphAPIError")

\* A 403 answered with GraphAuthError.
C9_Witness ==
    /\ pc = "sent"
    /\ http.response.status_code = 403
    /\ result.kind = "raise"
    /\ result.exc = "GraphAuthError"

\* ------------------------------------------------ stable_uid: the claims

SecondUidCall(op) == pc = "done2" /\ args.op = op

\* C5: stable_uid discards blank parts as well as empty ones: a call with one
\* more part that is empty or only whitespace, at any position, returns the
\* identifier of the call without it, and so does a call with whitespace
\* around a kept part.
C5_BlankPartsDiscarded ==
    (SecondUidCall("stable_uid_blank") \/ SecondUidCall("stable_uid_pad"))
        => result.value = prev.result.value

\* C6: with SHA-256 collision-free, any two (subject, organizer, start)
\* triples that differ in at least one part get different identifiers.
C6_EveryPartSensitive ==
    (SecondUidCall("stable_uid_other") /\ args.parts # prev.args.parts)
        => result.value # prev.result.value

\* A part that is not blank and does not hold the delimiter.
CleanPart(p) == Strip(p) # EmptyStr /\ \A i \in 1..Len(p) : p[i] # "|"

CleanTriple(ps) == Len(ps) = 3 /\ \A i \in 1..3 : CleanPart(ps[i])

DifferingParts(ps, qs) == {i \in 1..3 : Strip(ps[i]) # Strip(qs[i])}

\* C6, amended: two triples whose parts are all non-blank and free of "|",
\* and that differ in at least one part after trimming, get different
\* identifiers.
C6_CleanPartsSensitive ==
    ( /\ SecondUidCall("stable_uid_other")
      /\ CleanTriple(args.parts)
      /\ CleanTriple(prev.args.parts)
      /\ DifferingParts(args.parts, prev.args.parts) # {} )
        => result.value # prev.result.value

\* Two clean triples that differ in the start part alone, with different
\* identifiers.
C6_Witness ==
    /\ SecondUidCall("stable_uid_other")
    /\ CleanTriple(args.parts)
    /\ CleanTriple(prev.args.parts)
    /\ DifferingParts(args.parts, prev.args.parts) = {3}
    /\ result.value # prev.result.value

====
